---- MODULE Spec2Model ----
(***************************************************************************)
(* Model of src/src/lib.rs: the Slack handler that searches the open       *)
(* issues of a GitHub repository and posts one summary per issue, and      *)
(* get_summary, the token-budgeted map/reduce summarisation of one issue.  *)
(*                                                                         *)
(* A text is a sequence of symbols.  A chat message is spelled character   *)
(* by character (the regular expression works on characters); the literal  *)
(* pieces of a format! template are one symbol each.                       *)
(***************************************************************************)
EXTENDS Integers, Sequences, FiniteSets, TLC

\* ------------------------------------------------------------------------
\* Program constants
\* ------------------------------------------------------------------------

\* lib.rs:162/167  the token budget of one summarisation request
Budget == 2800

\* lib.rs:71  let mut count = 10
Quota == 10

\* lib.rs:43-44  unwrap_or(7) / None => 7
DefaultDays == 7

\* lib.rs:46-48  Utc::now().checked_sub_signed(..): chrono represents no date
\* before the year -262143, which lies about this many days before the
\* present ((262143 + 2026) * 365.2425).  For a larger day count
\* checked_sub_signed yields None (or Duration::days itself panics).
DaysBackRepresentable == 96480000

\* ------------------------------------------------------------------------
\* Bounds of the model
\* ------------------------------------------------------------------------

\* the longest search result explored (one more than the quota)
MaxIssues == 11

\* how many list_comments / chat_completion calls may fail in one run
MaxFaults == 2

\* stream lengths explored around each multiple of the budget: k*Budget +- Slack
Slack == 1

\* ------------------------------------------------------------------------
\* Characters and texts
\* ------------------------------------------------------------------------

Digits == <<"0", "1", "2", "3", "4", "5", "6", "7", "8", "9">>

IsDigit(c) == \E i \in 1..10 : Digits[i] = c

DigitValue(c) == (CHOOSE i \in 1..10 : Digits[i] = c) - 1

Letters ==
    {"a", "b", "c", "d", "e", "f", "g", "h", "i", "j", "k", "l", "m", "n", "o",
     "p", "q", "r", "s", "t", "u", "v", "w", "x", "y", "z"}

\* regex \s
IsSpace(c) == c \in {" ", "\t", "\n"}

\* regex \w
IsWord(c) == c \in Letters \/ IsDigit(c) \/ c = "_"

\* regex .  (any character but a line break)
IsDot(c) == c # "\n"

AllSpace(t, lo, hi) == \A i \in lo..hi : IsSpace(t[i])
AllWord(t, lo, hi) == \A i \in lo..hi : IsWord(t[i])
AllDot(t, lo, hi) == \A i \in lo..hi : IsDot(t[i])
AllDigit(t, lo, hi) == \A i \in lo..hi : IsDigit(t[i])

\* str::trim: the text without its leading and trailing white space
Trim(t) ==
    LET keep == {i \in 1..Len(t) : ~IsSpace(t[i])}
    IN  IF keep = {} THEN <<>>
        ELSE SubSeq(t, CHOOSE i \in keep : \A j \in keep : i <= j,
                       CHOOSE i \in keep : \A j \in keep : i >= j)

\* str::contains
Contains(t, w) ==
    \E i \in 0..(Len(t) - Len(w)) : SubSeq(t, i + 1, i + Len(w)) = w

\* str::split("/"): the pieces between the separators (never an empty list)
RECURSIVE Split(_)
Split(t) ==
    LET cut == {i \in 1..Len(t) : t[i] = "/"}
    IN  IF cut = {} THEN <<t>>
        ELSE LET c == CHOOSE i \in cut : \A j \in cut : i <= j
             IN  <<SubSeq(t, 1, c - 1)>> \o Split(SubSeq(t, c + 1, Len(t)))

\* the decimal spelling of a natural number
RECURSIVE Decimal(_)
Decimal(n) ==
    IF n < 10 THEN <<Digits[n + 1]>>
    ELSE Decimal(n \div 10) \o <<Digits[(n % 10) + 1]>>

\* ------------------------------------------------------------------------
\* lib.rs:30-31  ^(\s*\w+(?: \w+)?)(.*)( \d+)
\* A match is <<a, b, c, d, e>>: a white-space characters, b word characters,
\* c characters of the optional " \w+" (0 when it is skipped), d characters
\* of (.*), then a blank and e digits.  Every quantifier is greedy, so the
\* match the engine reports is the lexicographically greatest one.
\* ------------------------------------------------------------------------

Matches(t) ==
    LET n == Len(t)
    IN  UNION { UNION { UNION { UNION {
            { <<a, b, c, d, e>> : e \in {e \in 1..(n - a - b - c - d - 1) :
                  /\ t[a + b + c + d + 1] = " "
                  /\ AllDigit(t, a + b + c + d + 2, a + b + c + d + 1 + e)} }
          : d \in {d \in 0..(n - a - b - c) : AllDot(t, a + b + c + 1, a + b + c + d)} }
          : c \in {0} \cup {c \in 2..(n - a - b) :
                  t[a + b + 1] = " " /\ AllWord(t, a + b + 2, a + b + c)} }
          : b \in {b \in 1..(n - a) : AllWord(t, a + 1, a + b)} }
          : a \in {a \in 0..n : AllSpace(t, 1, a)} }

RECURSIVE LexGreater(_, _, _)
LexGreater(m1, m2, i) ==
    IF i > Len(m1) THEN FALSE
    ELSE IF m1[i] # m2[i] THEN m1[i] > m2[i]
    ELSE LexGreater(m1, m2, i + 1)

\* Regex::captures: the three groups of the preferred match, or no match
Captures(t) ==
    LET ms == Matches(t)
    IN  IF ms = {} THEN [matched |-> FALSE]
        ELSE LET m == CHOOSE m \in ms : \A o \in ms : o = m \/ LexGreater(m, o, 1)
                 g1 == m[1] + m[2] + m[3]
                 g2 == g1 + m[4]
             IN  [matched |-> TRUE,
                  g1 |-> SubSeq(t, 1, g1),
                  g2 |-> SubSeq(t, g1 + 1, g2),
                  g3 |-> SubSeq(t, g2 + 1, g2 + 1 + m[5])]

\* lib.rs:43  str::parse::<i64> of a string of digits.  i64::MAX has 19
\* digits.  A value of 10 to 19 digits is an i64 but no TLC integer: it is
\* recorded as 10^9, which every use below treats like the value itself
\* (it is only compared with DaysBackRepresentable < 10^9).
I64Max == <<"9", "2", "2", "3", "3", "7", "2", "0", "3", "6", "8", "5", "4", "7", "7", "5", "8", "0", "7">>

RECURSIVE DigitsValue(_)
DigitsValue(ds) ==
    IF ds = <<>> THEN 0
    ELSE 10 * DigitsValue(SubSeq(ds, 1, Len(ds) - 1)) + DigitValue(ds[Len(ds)])

ParseI64(ds) ==
    LET nz  == {i \in 1..Len(ds) : ds[i] # "0"}
        sig == IF nz = {} THEN <<>>
               ELSE SubSeq(ds, CHOOSE i \in nz : \A j \in nz : i <= j, Len(ds))
        over == \/ Len(sig) > 19
                \/ /\ Len(sig) = 19
                   /\ \E i \in 1..19 :
                         /\ \A j \in 1..(i - 1) : sig[j] = I64Max[j]
                         /\ DigitValue(sig[i]) > DigitValue(I64Max[i])
    IN  IF ds = <<>> \/ ~AllDigit(ds, 1, Len(ds)) \/ over THEN [ok |-> FALSE]
        ELSE IF Len(sig) > 9 THEN [ok |-> TRUE, val |-> 1000000000]
        ELSE [ok |-> TRUE, val |-> DigitsValue(sig)]

\* ------------------------------------------------------------------------
\* lib.rs:127  cl100k_base(): a byte-level BPE tokenizer.  Every symbol of
\* Vocab is one token, its rank in Vocab.  Crab stands for a character whose
\* UTF-8 bytes the vocabulary splits over two tokens (as cl100k_base does for
\* most emoji): CrabHead holds its first bytes, CrabTail the rest.
\* ------------------------------------------------------------------------

Crab == "<crab>"

FillerWords == <<"w0", "w1", "w2", "w3", "w4", "w5", "w6", "w7", "w8", "w9", "w10">>

Vocab ==
    <<"User '", "', who holds the role of '", "', has submitted an issue titled '",
      "', labeled as '", "', with the following post: '", "'.", " commented: ",
      ", ", "alice", "bob", "carol", "OWNER", "NONE", "Crash on start",
      "bug", "ui">> \o FillerWords

CrabHead == Len(Vocab) + 1
CrabTail == Len(Vocab) + 2

TokensOf(sym) ==
    IF sym = Crab THEN <<CrabHead, CrabTail>>
    ELSE <<CHOOSE i \in 1..Len(Vocab) : Vocab[i] = sym>>

RECURSIVE EncodeRange(_, _, _)
EncodeRange(t, lo, hi) ==
    IF lo > hi THEN <<>>
    ELSE IF lo = hi THEN TokensOf(t[lo])
    ELSE LET mid == (lo + hi) \div 2
         IN  EncodeRange(t, lo, mid) \o EncodeRange(t, mid + 1, hi)

\* lib.rs:133,142  CoreBPE::encode_ordinary
encode_ordinary(t) == EncodeRange(t, 1, Len(t))

NotCrabTail(tok) == tok # CrabTail

\* lib.rs:170,194  CoreBPE::decode: the tokens' bytes, read as UTF-8.  It is
\* an Err when the bytes are no valid UTF-8, that is when a part of a split
\* character stands without the other part.
decode(toks) ==
    LET n == Len(toks)
        valid == \A i \in 1..n :
                    /\ toks[i] = CrabHead => (i < n /\ toks[i + 1] = CrabTail)
                    /\ toks[i] = CrabTail => (i > 1 /\ toks[i - 1] = CrabHead)
        heads == SelectSeq(toks, NotCrabTail)
    IN  IF ~valid THEN [ok |-> FALSE]
        ELSE [ok |-> TRUE,
              text |-> [i \in 1..Len(heads) |->
                          IF heads[i] = CrabHead THEN Crab ELSE Vocab[heads[i]]]]

\* ------------------------------------------------------------------------
\* lib.rs:113-131, 141, 172, 182, 196, 206  the format! templates
\* ------------------------------------------------------------------------

\* Option<String>
None == [some |-> FALSE]
Some(t) == [some |-> TRUE, text |-> t]

\* lib.rs:118,139  unwrap_or("".to_string())
UnwrapOrEmpty(o) == IF o.some THEN o.text ELSE <<>>

\* lib.rs:120-125  labels joined with ", "
RECURSIVE JoinLabels(_)
JoinLabels(ls) ==
    IF ls = <<>> THEN <<>>
    ELSE IF Len(ls) = 1 THEN ls[1]
    ELSE ls[1] \o <<", ">> \o JoinLabels(Tail(ls))

\* lib.rs:131
issue_creator_input(issue) ==
    <<"User '">> \o issue.login \o <<"', who holds the role of '">> \o issue.role
    \o <<"', has submitted an issue titled '">> \o issue.title
    \o <<"', labeled as '">> \o JoinLabels(issue.labels)
    \o <<"', with the following post: '">> \o UnwrapOrEmpty(issue.body) \o <<"'.">>

\* lib.rs:141
commenter_input(comment) ==
    comment.login \o <<" commented: ">> \o UnwrapOrEmpty(comment.body)

\* lib.rs:172
map_question(issue, text_chunk) ==
    <<"Given the issue titled '">> \o issue.title
    \o <<"' and a particular segment of body or comment text '">> \o text_chunk
    \o <<"', focus on extracting the central arguments, proposed solutions, and instances of agreement or conflict among the participants. Generate an interim summary capturing the essential information in this section. This will be used later to form a comprehensive summary of the entire discussion.">>

\* lib.rs:182
reduce_question(issue, map_out_text) ==
    <<"User '">> \o issue.login \o <<"', in the role of '">> \o issue.role
    \o <<"', has filed an issue titled '">> \o issue.title
    \o <<"', labeled as '">> \o JoinLabels(issue.labels)
    \o <<"'. The key information you've extracted from the issue's body text and comments in segmented form are: ">>
    \o map_out_text
    \o <<". Concentrate on the principal arguments, suggested solutions, and areas of consensus or disagreement among the participants. From these elements, generate a concise summary of the entire issue to inform the next course of action.">>

\* lib.rs:196
unsplit_question(issue_body) ==
    issue_body
    \o <<", concentrate on the principal arguments, suggested solutions, and areas of consensus or disagreement among the participants. From these elements, generate a concise summary of the entire issue to inform the next course of action.">>

\* lib.rs:206
summary_message(summary_text, issue) ==
    <<"Issue Summary:\n">> \o summary_text \o <<"\n">> \o issue.html_url

\* lib.rs:81
limit_notice ==
    <<"You've reached your limit of 10 issues. Please wait 10 minutes before running the command again.">>

\* the correction without the user's message in it
correction_message_unquoted(t) ==
    <<"Please double check if there are errors in the owner and repo names provided in your message:\n">>
    \o <<"\nif yes, please correct the spelling and resend your instruction.">>

\* lib.rs:93-97
correction_message(t) ==
    <<"Please double check if there are errors in the owner and repo names provided in your message:\n">>
    \o t \o <<"\nif yes, please correct the spelling and resend your instruction.">>

\* ------------------------------------------------------------------------
\* Inputs: the chat messages, and what GitHub holds
\* ------------------------------------------------------------------------

\* lib.rs:28  env::var("trigger_word").unwrap_or("flows summarize")
trigger_word == <<"f", "l", "o", "w", "s", " ", "s", "u", "m", "m", "a", "r", "i", "z", "e">>

\* lib.rs:59-60  the fallback owner and repository
DefaultOwner == <<"f", "l", "o", "w", "s", "-", "n", "e", "t", "w", "o", "r", "k">>
DefaultRepo == <<"h", "a", "i", "k", "u", "-", "p", "l", "a", "t", "f", "o", "r", "m">>

MsgFull == trigger_word \o <<" ", "a", "/", "b", " ", "3", "0">>
MsgNoRepo == trigger_word \o <<" ", "a", " ", "7">>
MsgNoOwner == trigger_word \o <<" ", "7">>
MsgNoDays == trigger_word \o <<" ", "a", "/", "b">>
MsgWordDays == trigger_word \o <<" ", "a", "/", "b", " ", "s", "e", "v", "e", "n">>
MsgHugeDays == trigger_word \o <<" ", "a", "/", "b", " ">> \o [i \in 1..20 |-> "9"]
MsgFarDays == trigger_word \o <<" ", "a", "/", "b", " ">> \o [i \in 1..9 |-> "9"]
MsgOther == <<"h", "e", "l", "l", "o", " ", "a", "/", "b", " ", "7">>
MsgLate == <<"p", "l", "s", " ">> \o MsgFull
MsgEmpty == <<>>

MsgTexts ==
    {MsgFull, MsgNoRepo, MsgNoOwner, MsgNoDays, MsgWordDays, MsgHugeDays,
     MsgFarDays, MsgOther, MsgLate, MsgEmpty}

Filler(i) == FillerWords[(i % Len(FillerWords)) + 1]

\* a text of n symbols, the w-th of them the split character (none when w = 0)
Body(n, w) == [i \in 1..n |-> IF i = w THEN Crab ELSE Filler(i)]

Url(number) == <<"https://github.com/a/b/issues/">> \o Decimal(number)

\* an issue of a few tokens; its fields vary with its number
SmallIssue(number) ==
    [number |-> number,
     login |-> IF number % 2 = 0 THEN <<"alice">> ELSE <<"bob">>,
     role |-> IF number % 2 = 0 THEN <<"OWNER">> ELSE <<"NONE">>,
     title |-> <<"Crash on start">>,
     body |-> IF number % 2 = 0 THEN None ELSE Some(Body(2, 0)),
     html_url |-> Url(number),
     labels |-> SubSeq(<<<<"bug">>, <<"ui">>>>, 1, number % 3),
     thread |-> SubSeq(<<[login |-> <<"carol">>, body |-> Some(Body(1, 0))],
                         [login |-> <<"bob">>, body |-> None]>>, 1, number % 3)]

\* tokens of the issue sentence around an empty body, and before the body
SentenceTokens == Len(encode_ordinary(issue_creator_input(
                      [SmallIssue(1) EXCEPT !.body = None])))
TokensBeforeBody == SentenceTokens - 1

\* an issue whose sentence alone has len tokens, the split character's first
\* token being the crabAt-th of them (crabAt = 0: no such character)
BigIssue(number, len, crabAt) ==
    [SmallIssue(1) EXCEPT
       !.number = number,
       !.html_url = Url(number),
       !.body = Some(Body(len - SentenceTokens - (IF crabAt = 0 THEN 0 ELSE 1),
                          IF crabAt = 0 THEN 0 ELSE crabAt - TokensBeforeBody)),
       !.thread = <<[login |-> <<"carol">>, body |-> Some(Body(2, 0))]>>]

\* an issue without a body whose second comment is long
ChattyIssue(number, crabAt) ==
    [SmallIssue(1) EXCEPT
       !.number = number,
       !.html_url = Url(number),
       !.body = None,
       !.thread = <<[login |-> <<"bob">>, body |-> None],
                    [login |-> <<"carol">>, body |-> Some(Body(Budget, crabAt))]>>]

BigLens ==
    {k * Budget + d : k \in 1..2, d \in (0 - Slack)..Slack} \cup {2 * Budget + 400}

BigProfiles ==
    {pr \in BigLens \X {0, Budget - 1, Budget, 2 * Budget} :
        pr[2] = 0 \/ (pr[2] > TokensBeforeBody /\ pr[2] + 2 <= pr[1])}

SmallCounts == 0..2 \cup (Quota - 1)..MaxIssues

\* the results the search may return
SearchPages ==
    {[i \in 1..n |-> SmallIssue(i)] : n \in SmallCounts}
    \cup {<<BigIssue(1, pr[1], pr[2])>> : pr \in BigProfiles}
    \cup {<<ChattyIssue(1, w)>> : w \in {0, Budget - SentenceTokens - 4}}
    \cup {<<BigIssue(1, 2 * Budget + 400, 0), SmallIssue(2)>>}

\* ------------------------------------------------------------------------
\* State
\* ------------------------------------------------------------------------

VARIABLES
    pc,               \* where the run stands
    text,             \* sm.text
    owner, repo,      \* lib.rs:59-60
    n_days,           \* lib.rs:42
    found,            \* lib.rs:70  the issues the search returned, in its order
    pages,            \* lib.rs:72  the issues the loop has not reached yet
    count,            \* lib.rs:71
    issue,            \* the issue get_summary works on
    feed_tokens_map,  \* lib.rs:129
    token_vec,        \* lib.rs:163
    map_out,          \* lib.rs:164
    summary,          \* lib.rs:160  _summary
    faults,           \* failed list_comments / chat_completion calls so far
    calls,            \* every call to a collaborator, in the order made
    served            \* per issue started: what get_summary assembled and drained

vars == <<pc, text, owner, repo, n_days, found, pages, count, issue, feed_tokens_map,
          token_vec, map_out, summary, faults, calls, served>>

NoIssue == [number |-> 0]

ChatOps == {"map", "reduce", "unsplit"}

Call(op, n, ok, arg, reply) == [op |-> op, n |-> n, ok |-> ok, arg |-> arg, reply |-> reply]

\* the text of the k-th answer of the language model: every answer is new
ReplyText(k) == <<"reply#">> \o Decimal(k)

\* the summarisation requests made so far
Asked == Cardinality({i \in DOMAIN calls : calls[i].op \in ChatOps})

\* lib.rs:174,185,198  openai.chat_completion: Ok(r) or Err
ChatOutcomes ==
    {[ok |-> TRUE, choice |-> ReplyText(Asked + 1)]}
    \cup (IF faults < MaxFaults THEN {[ok |-> FALSE, choice |-> <<>>]} ELSE {})

\* lib.rs:62  the search query
Query(o, r, days) ==
    <<"repo:">> \o o \o <<"/">> \o r \o <<" is:issue state:open updated:>">>
    \o <<"today-">> \o Decimal(days)

\* Vec::get(i).unwrap_or(default)
GetOr(v, i, default) == IF i + 1 <= Len(v) THEN v[i + 1] ELSE default

Init ==
    /\ pc = "start"
    /\ text \in MsgTexts
    /\ owner = <<>>
    /\ repo = <<>>
    /\ n_days = 0
    /\ found = <<>>
    /\ pages = <<>>
    /\ count = 0
    /\ issue = NoIssue
    /\ feed_tokens_map = <<>>
    /\ token_vec = <<>>
    /\ map_out = <<>>
    /\ summary = <<>>
    /\ faults = 0
    /\ calls = <<>>
    /\ served = <<>>

\* ------------------------------------------------------------------------
\* handler
\* ------------------------------------------------------------------------

\* lib.rs:28-62  the message is matched and its parts are read
Parse ==
    /\ pc = "start"
    /\ LET cap == Captures(text)
           triggered == Contains(Trim(cap.g1), trigger_word)
           parsed == ParseI64(Trim(cap.g3))
           days == IF parsed.ok THEN parsed.val ELSE DefaultDays
           owner_repo == Split(Trim(cap.g2))
       IN  IF ~cap.matched
           THEN \* lib.rs:31  captures(..).unwrap() on None
                /\ pc' = "panicked"
                /\ UNCHANGED <<owner, repo, n_days>>
           ELSE IF ~triggered
           THEN \* lib.rs:38-40
                /\ pc' = "done"
                /\ UNCHANGED <<owner, repo, n_days>>
           ELSE IF days > DaysBackRepresentable
           THEN \* lib.rs:46-48  checked_sub_signed(..).unwrap() on None
                /\ pc' = "panicked"
                /\ n_days' = days
                /\ UNCHANGED <<owner, repo>>
           ELSE /\ pc' = "search"
                /\ n_days' = days
                /\ owner' = GetOr(owner_repo, 0, DefaultOwner)
                /\ repo' = GetOr(owner_repo, 1, DefaultRepo)
    /\ UNCHANGED <<text, found, pages, count, issue, feed_tokens_map, token_vec,
                   map_out, summary, faults, calls, served>>

\* lib.rs:64-71, 87-101  the search: Ok(pages), or Err and the correction
Search ==
    /\ pc = "search"
    /\ \/ \E page \in SearchPages :
            /\ found' = page
            /\ pages' = page
            /\ count' = Quota
            /\ calls' = Append(calls, Call("search", 0, TRUE, Query(owner, repo, n_days), <<>>))
            /\ pc' = "next_issue"
       \/ /\ calls' = calls \o <<Call("search", 0, FALSE, Query(owner, repo, n_days), <<>>),
                                 Call("send", 0, TRUE, correction_message(text), <<>>)>>
          /\ pc' = "done"
          /\ UNCHANGED <<found, pages, count>>
    /\ UNCHANGED <<text, owner, repo, n_days, issue, feed_tokens_map, token_vec,
                   map_out, summary, faults, served>>

\* the notice sent whenever the loop runs out of issues
NextIssueNoticeAtEnd ==
    /\ pc = "next_issue"
    /\ IF pages = <<>>
       THEN /\ pc' = "done"
            /\ calls' = Append(calls, Call("send", 0, TRUE, limit_notice, <<>>))
            /\ UNCHANGED <<pages, count, issue, feed_tokens_map, served>>
       ELSE /\ issue' = Head(pages)
            /\ pages' = Tail(pages)
            /\ count' = count - 1
            /\ feed_tokens_map' = encode_ordinary(issue_creator_input(Head(pages)))
            /\ served' = Append(served, [issue |-> Head(pages), listed |-> FALSE,
                                          stream |-> <<>>, chunks |-> <<>>])
            /\ calls' = calls
            /\ pc' = "list_comments"
    /\ token_vec' = <<>>
    /\ map_out' = <<>>
    /\ summary' = <<>>
    /\ UNCHANGED <<text, owner, repo, n_days, found, faults>>

\* lib.rs:72-74, 107-134  the loop takes the next issue; get_summary starts
\* and encodes the issue sentence
NextIssue ==
    /\ pc = "next_issue"
    /\ IF pages = <<>>
       THEN /\ pc' = "done"
            /\ UNCHANGED <<pages, count, issue, feed_tokens_map, served>>
       ELSE /\ issue' = Head(pages)
            /\ pages' = Tail(pages)
            /\ count' = count - 1
            /\ feed_tokens_map' = encode_ordinary(issue_creator_input(Head(pages)))
            /\ served' = Append(served, [issue |-> Head(pages), listed |-> FALSE,
                                          stream |-> <<>>, chunks |-> <<>>])
            /\ pc' = "list_comments"
    /\ token_vec' = <<>>
    /\ map_out' = <<>>
    /\ summary' = <<>>
    /\ UNCHANGED <<text, owner, repo, n_days, found, faults, calls>>

\* ------------------------------------------------------------------------
\* get_summary
\* ------------------------------------------------------------------------

Cur == Len(served)

RECURSIVE CommentTokens(_)
\* lib.rs:138-144  the tokens of the comments, each sentence encoded alone
CommentTokens(thread) ==
    IF thread = <<>> THEN <<>>
    ELSE encode_ordinary(commenter_input(Head(thread))) \o CommentTokens(Tail(thread))

\* the comparison off by one: a stream of exactly the budget is split
MustSplitAtBudget(total_tokens_count) == total_tokens_count >= Budget

\* lib.rs:162  total_tokens_count > 2800
MustSplit(total_tokens_count) == total_tokens_count > Budget

\* the budget forgotten: the whole rest is drained at once
DrainToAll(len) == len

\* lib.rs:167  std::cmp::min(token_vec.len(), 2800)
DrainTo(len) == IF len < Budget THEN len ELSE Budget

\* lib.rs:136-164  the comments are listed (Ok: their tokens are appended;
\* Err: nothing is), the tokens are counted and the path is chosen
ListComments ==
    /\ pc = "list_comments"
    /\ \E ok \in {TRUE} \cup (IF faults < MaxFaults THEN {FALSE} ELSE {}) :
         LET stream == IF ok THEN feed_tokens_map \o CommentTokens(issue.thread)
                       ELSE feed_tokens_map
         IN  /\ feed_tokens_map' = stream
             /\ faults' = IF ok THEN faults ELSE faults + 1
             /\ calls' = Append(calls, Call("list_comments", Cur, ok,
                                  owner \o <<"/">> \o repo \o <<"#">> \o Decimal(issue.number), <<>>))
             /\ served' = [served EXCEPT ![Cur].listed = ok, ![Cur].stream = stream]
             /\ IF MustSplit(Len(stream))
                THEN /\ token_vec' = stream
                     /\ pc' = "map"
                ELSE /\ token_vec' = <<>>
                     /\ pc' = "unsplit"
    /\ UNCHANGED <<text, owner, repo, n_days, found, pages, count, issue, map_out, summary>>

\* lib.rs:166-180  one turn of the map loop: a chunk is drained and decoded,
\* and summarised; a failed request adds nothing
MapChunk ==
    /\ pc = "map"
    /\ token_vec # <<>>
    /\ LET drain_to == DrainTo(Len(token_vec))
           token_chunk == SubSeq(token_vec, 1, drain_to)
           text_chunk == decode(token_chunk)
       IN  /\ token_vec' = SubSeq(token_vec, drain_to + 1, Len(token_vec))
           /\ served' = [served EXCEPT ![Cur].chunks = Append(@, token_chunk)]
           /\ IF ~text_chunk.ok
              THEN \* lib.rs:170  decode(..).unwrap() on Err
                   /\ pc' = "panicked"
                   /\ UNCHANGED <<map_out, faults, calls>>
              ELSE \E r \in ChatOutcomes :
                   /\ calls' = Append(calls, Call("map", Cur, r.ok,
                                        map_question(issue, text_chunk.text), r.choice))
                   /\ map_out' = IF r.ok THEN map_out \o r.choice ELSE map_out
                   /\ faults' = IF r.ok THEN faults ELSE faults + 1
                   /\ pc' = "map"
    /\ UNCHANGED <<text, owner, repo, n_days, found, pages, count, issue, feed_tokens_map, summary>>

\* lib.rs:166, 182-192  the loop ends and the interim summaries are reduced
Reduce ==
    /\ pc = "map"
    /\ token_vec = <<>>
    /\ \E r \in ChatOutcomes :
         /\ calls' = Append(calls, Call("reduce", Cur, r.ok,
                              reduce_question(issue, map_out), r.choice))
         /\ summary' = IF r.ok THEN r.choice ELSE summary
         /\ faults' = IF r.ok THEN faults ELSE faults + 1
    /\ pc' = "send"
    /\ UNCHANGED <<text, owner, repo, n_days, found, pages, count, issue, feed_tokens_map,
                   token_vec, map_out, served>>

\* lib.rs:194-204  the whole stream is decoded and summarised in one request
Unsplit ==
    /\ pc = "unsplit"
    /\ LET issue_body == decode(feed_tokens_map)
       IN  IF ~issue_body.ok
           THEN \* lib.rs:194  decode(..).unwrap() on Err
                /\ pc' = "panicked"
                /\ UNCHANGED <<summary, faults, calls>>
           ELSE \E r \in ChatOutcomes :
                /\ calls' = Append(calls, Call("unsplit", Cur, r.ok,
                                     unsplit_question(issue_body.text), r.choice))
                /\ summary' = IF r.ok THEN r.choice ELSE summary
                /\ faults' = IF r.ok THEN faults ELSE faults + 1
                /\ pc' = "send"
    /\ UNCHANGED <<text, owner, repo, n_days, found, pages, count, issue, feed_tokens_map,
                   token_vec, map_out, served>>

\* lib.rs:206, 75-85  get_summary returns; the message is sent, and with the
\* quota used up the notice is sent and the loop is left
Send ==
    /\ pc = "send"
    /\ LET message == Call("send", Cur, TRUE, summary_message(summary, issue), <<>>)
       IN  IF count <= 0
           THEN /\ calls' = calls \o <<message, Call("send", 0, TRUE, limit_notice, <<>>)>>
                /\ pc' = "done"
           ELSE /\ calls' = Append(calls, message)
                /\ pc' = "next_issue"
    /\ UNCHANGED <<text, owner, repo, n_days, found, pages, count, issue, feed_tokens_map,
                   token_vec, map_out, summary, faults, served>>

Next ==
    \/ Parse
    \/ Search
    \/ NextIssue
    \/ ListComments
    \/ MapChunk
    \/ Reduce
    \/ Unsplit
    \/ Send

Spec == Init /\ [][Next]_vars

\* ------------------------------------------------------------------------
\* What a run shows
\* ------------------------------------------------------------------------

Ended == pc \in {"done", "panicked"}

SearchOk == \E i \in DOMAIN calls : calls[i].op = "search" /\ calls[i].ok
SearchFailed == \E i \in DOMAIN calls : calls[i].op = "search" /\ ~calls[i].ok

\* the calls made for the k-th issue, in order
CallsFor(k) == SelectSeq(calls, LAMBDA c : c.n = k)
OpsFor(k, ops) == SelectSeq(calls, LAMBDA c : c.n = k /\ c.op \in ops)

\* the messages sent to the channel, in order
Sent == SelectSeq(calls, LAMBDA c : c.op = "send")

\* the token stream of the k-th issue is assembled (lib.rs:159 is passed)
Assembled(k) == k < Cur \/ pc # "list_comments"

\* get_summary has returned for the k-th issue
Returned(k) == k < Cur \/ pc \in {"send", "next_issue", "done"}

\* the handler is through with the k-th issue, one way or another
Over(k) == k < Cur \/ pc \in {"next_issue", "done", "panicked"}

\* the map loop of the k-th issue runs no more
LoopOver(k) == k < Cur \/ pc # "map" \/ token_vec = <<>>

CeilDiv(a, b) == (a + b - 1) \div b

RECURSIVE Concat(_)
Concat(ss) == IF ss = <<>> THEN <<>> ELSE Head(ss) \o Concat(Tail(ss))

\* ------------------------------------------------------------------------
\* C2: a stream of at most 2800 tokens (2800 included) is one chunk: no map
\* call is made for the issue, nothing is drained, get_summary does not
\* abort, and once it has returned exactly one summarisation call was made,
\* the unsplit one on the whole decoded stream; a map call is made only for
\* a stream of more than 2800 tokens.
\* ------------------------------------------------------------------------
C2_UnsplitShortcut ==
    \A k \in 1..Len(served) :
        LET S == served[k].stream
            chats == OpsFor(k, ChatOps)
        IN  /\ (Assembled(k) /\ Len(S) <= Budget) =>
                  /\ served[k].chunks = <<>>
                  /\ \A i \in 1..Len(chats) : chats[i].op = "unsplit"
                  /\ Len(chats) <= 1
                  /\ ~(k = Cur /\ pc = "panicked")
                  /\ Returned(k) =>
                        /\ Len(chats) = 1
                        /\ chats[1].arg = unsplit_question(decode(S).text)
            /\ (OpsFor(k, {"map"}) # <<>> \/ served[k].chunks # <<>>) => Len(S) > Budget

\* an issue of exactly 2800 tokens was summarised by the one unsplit call
C2_Witness ==
    \E k \in 1..Len(served) :
        /\ Len(served[k].stream) = Budget
        /\ Returned(k)
        /\ OpsFor(k, ChatOps) # <<>>
        /\ OpsFor(k, ChatOps)[1].op = "unsplit"

\* ------------------------------------------------------------------------
\* C8: when the trigger matched and the search fails, the run ends normally
\* with exactly one message, the correction quoting the message text: no
\* summary, no notice, no comment listing and no summarisation call.
\* ------------------------------------------------------------------------
C8_SearchFailure ==
    SearchFailed =>
        /\ Contains(Trim(Captures(text).g1), trigger_word)
        /\ pc = "done"
        /\ Len(calls) = 2
        /\ calls[1].op = "search"
        /\ calls[2].op = "send"
        /\ calls[2].arg = <<"Please double check if there are errors in the owner and repo names provided in your message:\n">>
                          \o text
                          \o <<"\nif yes, please correct the spelling and resend your instruction.">>
        /\ Contains(calls[2].arg, text)
        /\ served = <<>>

C8_Witness == SearchFailed /\ pc = "done" /\ Len(Sent) = 1

\* ------------------------------------------------------------------------
\* C9: when the search succeeds with no issue, the run sends no message and
\* makes no comment-listing or summarisation call.
\* ------------------------------------------------------------------------
C9_NoMatches ==
    (SearchOk /\ found = <<>>) =>
        /\ Len(calls) = 1
        /\ Sent = <<>>
        /\ served = <<>>
        /\ pc \in {"next_issue", "done"}

C9_Witness == SearchOk /\ found = <<>> /\ pc = "done"

\* ------------------------------------------------------------------------
\* C10: the calls of a run are strictly ordered.  Issues are taken in the
\* order of the search; no call for an issue is made before the message of
\* the issue before it is sent; for one issue the calls are the comment
\* listing, then on the split path the map calls, one per chunk in chunk
\* order, all ceil(len/2800) of them before the single reduce call, and the
\* message comes last, right after the reduce (or unsplit) call.
\* ------------------------------------------------------------------------
C10_CallOrder ==
    /\ \A k \in 1..Len(served) : served[k].issue = found[k]
    /\ \A j \in DOMAIN calls :
          calls[j].n > 1 =>
             \E i \in 1..(j - 1) : calls[i].op = "send" /\ calls[i].n = calls[j].n - 1
    /\ \A i, j \in DOMAIN calls :
          (i < j /\ calls[i].n > 0 /\ calls[j].n > 0) => calls[i].n <= calls[j].n
    /\ \A k \in 1..Len(served) :
          LET cs == CallsFor(k)
              S == served[k].stream
              chunks == served[k].chunks
          IN  \A p \in 1..Len(cs) :
                 /\ cs[p].op = "list_comments" <=> p = 1
                 /\ cs[p].op = "map" =>
                       /\ Len(S) > Budget
                       /\ p - 1 <= Len(chunks)
                       /\ cs[p].arg = map_question(served[k].issue, decode(chunks[p - 1]).text)
                 /\ cs[p].op = "reduce" =>
                       /\ p = CeilDiv(Len(S), Budget) + 2
                       /\ \A q \in 2..(p - 1) : cs[q].op = "map"
                 /\ cs[p].op = "unsplit" => p = 2
                 /\ cs[p].op = "send" =>
                       /\ p = Len(cs)
                       /\ p > 1
                       /\ cs[p - 1].op \in {"reduce", "unsplit"}

\* a split issue went through three map calls, the reduce call and its
\* message, and a call for the next issue followed
C10_Witness ==
    /\ Len(served) >= 2
    /\ Len(OpsFor(1, {"map"})) = 3
    /\ Len(OpsFor(1, {"reduce"})) = 1
    /\ Len(OpsFor(1, {"send"})) = 1
    /\ CallsFor(2) # <<>>

\* ------------------------------------------------------------------------
\* C1: for a stream S of more than 2800 tokens, once the map loop runs no
\* more the chunks it drained, concatenated in order, are S, there are
\* ceil(len(S)/2800) of them and as many map calls, every chunk but the last
\* has 2800 tokens and the last has between 1 and 2800.
\* ------------------------------------------------------------------------
C1_ChunkingComplete ==
    \A k \in 1..Len(served) :
        LET S == served[k].stream
            chunks == served[k].chunks
        IN  (Assembled(k) /\ Len(S) > Budget /\ LoopOver(k)) =>
               /\ Concat(chunks) = S
               /\ Len(chunks) = CeilDiv(Len(S), Budget)
               /\ Len(OpsFor(k, {"map"})) = Len(chunks)
               /\ \A c \in 1..(Len(chunks) - 1) : Len(chunks[c]) = Budget
               /\ chunks # <<>> =>
                     Len(chunks[Len(chunks)]) \in 1..Budget

\* ------------------------------------------------------------------------
\* C3: a run whose search returned n issues ends with exactly min(n, 10)
\* summaries, in search order; get_summary is started for no 11th issue;
\* the limit notice is sent exactly once, last and right after the 10th
\* summary, when n >= 10, and never when n < 10.
\* ------------------------------------------------------------------------
C3_RateLimit ==
    /\ Len(served) <= Quota
    /\ (Ended /\ SearchOk) =>
          LET n == Len(found)
              m == IF n < Quota THEN n ELSE Quota
              summaries == SelectSeq(Sent, LAMBDA c : c.n > 0)
              notices == SelectSeq(Sent, LAMBDA c : c.arg = limit_notice)
          IN  /\ Len(summaries) = m
              /\ \A k \in 1..Len(summaries) :
                    /\ summaries[k].n = k
                    /\ \E s \in {<<>>} \cup {calls[i].reply : i \in DOMAIN calls} :
                          summaries[k].arg = summary_message(s, found[k])
              /\ Len(notices) = (IF n >= Quota THEN 1 ELSE 0)
              /\ n >= Quota =>
                    /\ Len(Sent) = Quota + 1
                    /\ Sent[Quota + 1].arg = limit_notice
                    /\ Sent[Quota].n = Quota

\* ------------------------------------------------------------------------
\* C4: for every issue the handler is through with, exactly one message
\* "Issue Summary:\n{summary_text}\n{issue_url}" was sent, whatever the
\* summarisation calls did; summary_text is the answer of the final (reduce
\* or unsplit) call, and the empty text when that call failed.
\* ------------------------------------------------------------------------
C4_AlwaysOneMessage ==
    \A k \in 1..Len(served) :
        Over(k) =>
           LET sends == OpsFor(k, {"send"})
               final == OpsFor(k, {"reduce", "unsplit"})
           IN  /\ Len(sends) = 1
               /\ Len(final) = 1
               /\ sends[1].arg =
                     <<"Issue Summary:\n">>
                     \o (IF final[1].ok THEN final[1].reply ELSE <<>>)
                     \o <<"\n">> \o served[k].issue.html_url

\* ------------------------------------------------------------------------
\* C5: on the split path a failed map call does not stop the loop: once the
\* loop runs no more, every chunk of the stream was sent to the map call;
\* the interim buffer given to the reduce call is the concatenation, in
\* chunk order, of the answers of the map calls that succeeded; and once
\* the handler is through with the issue the reduce call was made exactly
\* once.
\* ------------------------------------------------------------------------
C5_MapFailureSkipped ==
    \A k \in 1..Len(served) :
        LET S == served[k].stream
            maps == OpsFor(k, {"map"})
            reduces == OpsFor(k, {"reduce"})
            answers == [i \in 1..Len(maps) |-> IF maps[i].ok THEN maps[i].reply ELSE <<>>]
        IN  (Assembled(k) /\ Len(S) > Budget /\ \E i \in 1..Len(maps) : ~maps[i].ok) =>
               /\ LoopOver(k) => Len(maps) = CeilDiv(Len(S), Budget)
               /\ \A i \in 1..Len(reduces) :
                     reduces[i].arg = reduce_question(served[k].issue, Concat(answers))
               /\ Len(reduces) <= 1
               /\ Over(k) => Len(reduces) = 1

\* ------------------------------------------------------------------------
\* C6: when the comment listing fails for an issue, get_summary does not
\* abort: the stream is exactly the tokens of the issue sentence, the
\* summarisation runs on it, and the message of the issue is produced.
\* ------------------------------------------------------------------------
C6_ListingFailureTolerated ==
    \A k \in 1..Len(served) :
        (Assembled(k) /\ ~served[k].listed) =>
           /\ served[k].stream = encode_ordinary(issue_creator_input(served[k].issue))
           /\ ~(k = Cur /\ pc = "panicked")
           /\ Over(k) =>
                 /\ Len(OpsFor(k, {"reduce", "unsplit"})) = 1
                 /\ Len(OpsFor(k, {"send"})) = 1

\* ------------------------------------------------------------------------
\* C7: whatever the text of the chat message, reading it never ends the run
\* abnormally: a missing or unparseable day count becomes 7, a missing or
\* unparseable owner or repository becomes flows-network / haiku-platform.
\* ------------------------------------------------------------------------
C7_MalformedInputTolerated ==
    /\ ~(pc = "panicked" /\ calls = <<>>)
    /\ pc = "search" =>
          LET cap == Captures(text)
              parts == Split(Trim(cap.g2))
          IN  /\ ~ParseI64(Trim(cap.g3)).ok => n_days = DefaultDays
              /\ (parts[1] = <<>>) => owner = DefaultOwner
              /\ (Len(parts) < 2 \/ parts[2] = <<>>) => repo = DefaultRepo

====
